---- MODULE Spec2Model ----
(***************************************************************************)
(* A model of the BrainusAI client: the constructor, the typed operations  *)
(* query, getUsage and getPlans (request body, response remapping), and    *)
(* the request-execution pipeline makeRequest (retry loop with exponential *)
(* backoff), handleErrorResponse (status -> error mapping) and sleep.      *)
(*                                                                         *)
(* Text is modelled as a sequence of atoms (single characters or whole     *)
(* words); substring search and case folding work on those sequences.      *)
(* JavaScript's undefined / NaN / numbers are tagged records; a JSON       *)
(* object is a record with one field for each key it has.                  *)
(***************************************************************************)
EXTENDS Integers, Sequences, FiniteSets, TLC

VARIABLES
  config,       \* the argument the constructor was given
  apiKey,       \* this.apiKey
  baseUrl,      \* this.baseUrl
  timeout,      \* this.timeout
  maxRetries,   \* this.maxRetries, fixed at construction
  op,           \* the typed operation that awaits makeRequest
  request,      \* the argument of query
  method,       \* makeRequest's parameter method
  url,          \* makeRequest's local url
  reqBody,      \* makeRequest's parameter body
  pc,           \* where the call is: "idle", "fetch", "sleep", "done"
  attempt,      \* the loop index of makeRequest
  lastError,    \* the local lastError of makeRequest
  outcome,      \* what the transport answered the latest attempt with
  mappedMessage, \* the local mappedMessage of handleErrorResponse
  seen,         \* classes of the outcomes of the earlier attempts of this call
  fetchCalls,   \* attempt index of every fetch() invocation of this call
  sleeps,       \* every sleep() of this call: after which attempt, how long
  sent,         \* the distinct requests this call handed to fetch()
  hist,         \* the outcomes of this call's attempts in order, where recorded
  result,       \* how makeRequest ended: pending, returned a value, raised an error
  opResult,     \* what the typed operation hands its caller
  focus,        \* which of two calls on the client the variables above describe
  other         \* the locals of the other call, suspended at an await

\* the fields of the client instance
client == <<config, apiKey, baseUrl, timeout, maxRetries>>

\* the parameters and locals of one invocation
locals ==
  <<op, request, method, url, reqBody, pc, attempt, lastError, outcome, mappedMessage,
    seen, fetchCalls, sleeps, sent, hist, result, opResult>>

vars == <<client, locals, focus, other>>

----------------------------------------------------------------------------
(* Bounds                                                                  *)

\* largest maxRetries the configurations range over (5 makes the 10 s cap bite)
MaxRetriesBound == 5

\* longest Retry-After header value, in characters
MaxHeaderLen == 2

----------------------------------------------------------------------------
(* JavaScript values                                                       *)

Undefined == [t |-> "undefined"]
NaN == [t |-> "NaN"]
Num(n) == [t |-> "number", n |-> n]

\* a value in a boolean context: undefined, NaN and 0 are falsy
TruthyNumber(v) == v.t = "number" /\ v.n # 0

Min(a, b) == IF a <= b THEN a ELSE b

RECURSIVE Pow2(_)
Pow2(n) == IF n <= 0 THEN 1 ELSE 2 * Pow2(n - 1)

----------------------------------------------------------------------------
(* Strings                                                                 *)

\* String.prototype.includes
Includes(s, sub) ==
  \E i \in 0..(Len(s) - Len(sub)) : SubSeq(s, i + 1, i + Len(sub)) = sub

LowerAtom(a) ==
  CASE a = "Q" -> "q"
    [] a = "U" -> "u"
    [] a = "O" -> "o"
    [] a = "T" -> "t"
    [] a = "A" -> "a"
    [] a = "No" -> "no"
    [] a = "Forbidden" -> "forbidden"
    [] OTHER -> a

\* String.prototype.toLowerCase
ToLowerCase(s) == [i \in 1..Len(s) |-> LowerAtom(s[i])]

StoreLiteral ==
  <<"No", " ", "store_id", " ", "provided", " ", "and", " ", "no", " ",
    "default", " ", "store", " ", "configured">>

ClarifiedStoreMessage ==
  StoreLiteral \o <<".", " ", "Please provide a store_id in your request.">>

QuotaLiteral == <<"q", "u", "o", "t", "a">>

----------------------------------------------------------------------------
(* JSON values as the client reads them                                    *)

Str(s) == [t |-> "string", s |-> s]
Obj == [t |-> "object"]    \* a JSON object where a string was expected
Arr == [t |-> "array"]     \* a JSON array (of objects) where a string was expected
Null == [t |-> "null"]

\* a value in a boolean context, as || and ! see it
Truthy(v) ==
  \/ v.t \in {"object", "array"}
  \/ v.t = "string" /\ v.s # <<>>
  \/ v.t = "number" /\ v.n # 0
  \/ v.t = "boolean" /\ v.b

\* a || b
Or(a, b) == IF Truthy(a) THEN a ELSE b

\* String(v), the conversion the Error constructor applies to its message
ToStr(v) ==
  CASE v.t = "string" -> v.s
    [] v.t = "object" -> <<"[object Object]">>
    [] v.t = "array" -> <<"[object Object]", ",", "[object Object]">>
    [] OTHER -> <<v.t>>

----------------------------------------------------------------------------
(* The error classes of ./errors                                           *)

Error(kind, message) ==
  [t |-> "error", kind |-> kind, message |-> message,
   statusCode |-> Undefined, retryAfter |-> Undefined]

AuthenticationError(message) == Error("AuthenticationError", ToStr(message))

RateLimitError(message, retryAfter) ==
  [Error("RateLimitError", ToStr(message)) EXCEPT !.retryAfter = retryAfter]

QuotaExceededError(message) == Error("QuotaExceededError", ToStr(message))

APIError(message, statusCode) ==
  [Error("APIError", ToStr(message)) EXCEPT !.statusCode = statusCode]

\* error instanceof cls: the four classes are distinct kinds, none a subclass
\* of another
InstanceOf(error, cls) == error.t = "error" /\ error.kind = cls

\* errors of the runtime
TypeError(message) == Error("TypeError", message)
SyntaxError == Error("SyntaxError", <<"Unexpected end of JSON input">>)
NetworkError == TypeError(<<"fetch failed">>)
TimeoutError == Error("TimeoutError", <<"The operation was aborted due to timeout">>)

----------------------------------------------------------------------------
(* parseInt(s, 10) on a sequence of characters                             *)

Digits == {"0", "1", "5"}

DigitValue(c) == CASE c = "0" -> 0 [] c = "1" -> 1 [] c = "5" -> 5 [] OTHER -> 0

RECURSIVE SkipSpaces(_)
SkipSpaces(s) ==
  IF s # <<>> /\ Head(s) = " " THEN SkipSpaces(Tail(s)) ELSE s

\* the value of the longest prefix of digits of s, given the value acc of the
\* digits read so far
RECURSIVE ReadDigits(_, _)
ReadDigits(s, acc) ==
  IF s # <<>> /\ Head(s) \in Digits
    THEN ReadDigits(Tail(s), 10 * acc + DigitValue(Head(s)))
    ELSE acc

ParseInt(str) ==
  LET s == SkipSpaces(str)
      neg == s # <<>> /\ Head(s) = "-"
      d == IF neg THEN Tail(s) ELSE s
  IN IF d = <<>> \/ Head(d) \notin Digits
       THEN NaN
       ELSE Num(IF neg THEN 0 - ReadDigits(d, 0) ELSE ReadDigits(d, 0))

----------------------------------------------------------------------------
(* handleErrorResponse                                                     *)

\* response.ok without its upper bound
ResponseOk_NoUpperBound(response) == response.status >= 200

\* response.ok
ResponseOk(response) == response.status >= 200 /\ response.status <= 299

\* the message taken from the body's message before its detail
ErrorMessage_MessageFirst(response) ==
  IF response.body.t = "object"
    THEN Or(Or(response.body.message, response.body.detail), Str(response.statusText))
    ELSE Str(response.statusText)

\* lines 331-340: the message taken from the body, else the status text
ErrorMessage(response) ==
  IF response.body.t = "object"
    THEN Or(Or(response.body.detail, response.body.message), Str(response.statusText))
    ELSE Str(response.statusText)     \* json() or the property read threw

\* lines 346-349: the retry-after hint of a 429
RetryAfterOf(response) ==
  LET retryAfter == response.retryAfter
  IN IF retryAfter.t = "string" /\ retryAfter.s # <<>>
       THEN ParseInt(retryAfter.s)
       ELSE Undefined

Threw(error) == [threw |-> TRUE, error |-> error]
Returned(value) == [threw |-> FALSE, value |-> value]

\* lines 342-371: what handleErrorResponse throws
handleErrorResponse(response) ==
  LET errorMessage == ErrorMessage(response)
      status == response.status
  IN CASE status = 401 -> Threw(AuthenticationError(errorMessage))
       [] status = 429 -> Threw(RateLimitError(errorMessage, RetryAfterOf(response)))
       [] status = 400 ->
            IF errorMessage.t = "object"
              THEN Threw(TypeError(<<"errorMessage.includes is not a function">>))
            ELSE IF errorMessage.t = "string" /\ Includes(errorMessage.s, StoreLiteral)
              THEN Threw(APIError(Str(ClarifiedStoreMessage), Num(400)))
            ELSE Threw(APIError(errorMessage, Num(status)))
       [] status = 403 ->
            IF errorMessage.t # "string"
              THEN Threw(TypeError(<<"errorMessage.toLowerCase is not a function">>))
            ELSE IF Includes(ToLowerCase(errorMessage.s), QuotaLiteral)
              THEN Threw(QuotaExceededError(errorMessage))
            ELSE Threw(APIError(errorMessage, Num(status)))
       [] OTHER -> Threw(APIError(errorMessage, Num(status)))

----------------------------------------------------------------------------
(* makeRequest                                                             *)

\* the loop test with < for <=
LoopCondition_Strict(a, retries) == a < retries

\* the loop test running one attempt too many
LoopCondition_OneMore(a, retries) == a <= retries + 1

\* line 279: the test of the for loop
LoopCondition(a, retries) == a <= retries

\* the re-throw test without its authentication clause
IsNonRetryable_NoAuth(error) ==
  \/ InstanceOf(error, "QuotaExceededError")
  \/ /\ InstanceOf(error, "APIError")
     /\ TruthyNumber(error.statusCode)
     /\ error.statusCode.n < 500

\* the re-throw test with <= 500 for < 500
IsNonRetryable_UpTo500(error) ==
  \/ InstanceOf(error, "AuthenticationError")
  \/ InstanceOf(error, "QuotaExceededError")
  \/ /\ InstanceOf(error, "APIError")
     /\ TruthyNumber(error.statusCode)
     /\ error.statusCode.n <= 500

\* lines 301-307: the errors the catch block re-throws at once
IsNonRetryable(error) ==
  \/ InstanceOf(error, "AuthenticationError")
  \/ InstanceOf(error, "QuotaExceededError")
  \/ /\ InstanceOf(error, "APIError")
     /\ TruthyNumber(error.statusCode)
     /\ error.statusCode.n < 500

\* line 312: whether the catch block sleeps before the next iteration
SleepCondition(a, retries) == a < retries

\* the backoff without its 10 s cap
BackoffMs_NoCap(a) == 1000 * Pow2(a)

\* a backoff that grows linearly
BackoffMs_Linear(a) == Min(1000 * (a + 1), 10000)

\* line 313: Math.min(1000 * Math.pow(2, attempt), 10000)
BackoffMs(a) == Min(1000 * Pow2(a), 10000)

\* a final error that takes over the status code of the last error
ExhaustedError_KeepsStatus(retries, le) ==
  APIError(Str(<<"Request failed after ", ToString(retries + 1), " attempts: ">>
               \o (IF le.t = "error" THEN le.message ELSE <<"undefined">>)),
           IF le.t = "error" THEN le.statusCode ELSE Undefined)

\* lines 318-322: the error thrown after the loop
ExhaustedError(retries, le) ==
  APIError(Str(<<"Request failed after ", ToString(retries + 1), " attempts: ">>
               \o (IF le.t = "error" THEN le.message ELSE <<"undefined">>)),
           Undefined)

\* response.json() at line 296: the body was already read when
\* handleErrorResponse ran, and a body that is no JSON text does not parse
ResponseJson(response, bodyUsed) ==
  IF bodyUsed THEN Threw(TypeError(<<"Body is unusable: Body has already been read">>))
  ELSE IF response.body.t = "unparsable" THEN Threw(SyntaxError)
  ELSE Returned(response.body)

\* the try block without the response.ok test of line 292
TryBlock_AlwaysMaps(o) ==
  IF o.t = "reject" THEN Threw(o.error)
  ELSE LET h == handleErrorResponse(o)
       IN IF h.threw THEN h ELSE ResponseJson(o, TRUE)

\* lines 281-296: one pass through the try block, given what the transport
\* answered the fetch with: the value returned or the error thrown
TryBlock(o) ==
  IF o.t = "reject" THEN Threw(o.error)
  ELSE IF ResponseOk(o) THEN ResponseJson(o, FALSE)
  ELSE LET h == handleErrorResponse(o)
       IN IF h.threw THEN h ELSE ResponseJson(o, TRUE)

----------------------------------------------------------------------------
(* The constructor                                                         *)

\* String.prototype.startsWith
StartsWith(s, prefix) ==
  Len(s) >= Len(prefix) /\ SubSeq(s, 1, Len(prefix)) = prefix

\* the key prefix of an earlier release
KeyPrefix_SkLive == <<"s", "k", "_", "l", "i", "v", "e", "_">>

\* line 138: "brainus_"
KeyPrefix == <<"b", "r", "a", "i", "n", "u", "s", "_">>

DefaultBaseUrl == <<"https://api.brainus.lk">>

DefaultTimeout == 30000

DefaultMaxRetries == 3

Nullish(v) == v.t \in {"undefined", "null"}

\* a ?? b
Coalesce(a, b) == IF Nullish(a) THEN b ELSE a

InvalidKeyError ==
  Error("Error", <<"Invalid API key format. Expected format: brainus_...">>)

Config(key, base, ms, retries) ==
  [apiKey |-> key, baseUrl |-> base, timeout |-> ms, maxRetries |-> retries]

\* lines 137-146: the fields of the new client, or the error thrown
NewClient(cfg) ==
  IF ~Truthy(cfg.apiKey) THEN Threw(InvalidKeyError)
  ELSE IF cfg.apiKey.t # "string"
    THEN Threw(TypeError(<<"config.apiKey.startsWith is not a function">>))
  ELSE IF ~StartsWith(cfg.apiKey.s, KeyPrefix) THEN Threw(InvalidKeyError)
  ELSE Returned([apiKey |-> cfg.apiKey.s,
                 baseUrl |-> Coalesce(cfg.baseUrl, Str(DefaultBaseUrl)).s,
                 timeout |-> Coalesce(cfg.timeout, Num(DefaultTimeout)).n,
                 maxRetries |-> Coalesce(cfg.maxRetries, Num(DefaultMaxRetries)).n])

----------------------------------------------------------------------------
(* The typed operations: building the request                              *)

Bool(b) == [t |-> "boolean", b |-> b]

\* a JSON array with its elements
List(items) == [t |-> "array", items |-> items]

\* a JSON object is a record with t = "object" and one field for each key
Keys(obj) == DOMAIN obj \ {"t"}

\* obj[key] = value
Put(obj, key, value) ==
  [k \in DOMAIN obj \cup {key} |-> IF k = key THEN value ELSE obj[k]]

\* obj[key]: undefined for a key the object does not have
Get(obj, key) ==
  IF obj.t = "object" /\ key \in Keys(obj) THEN obj[key] ELSE Undefined

QueryRequest(query, storeId, filters, model) ==
  [query |-> query, storeId |-> storeId, filters |-> filters, model |-> model]

\* a body that carries every optional field, whatever the caller gave
QueryBody_AllKeys(req) ==
  [t |-> "object", query |-> req.query, store_id |-> Coalesce(req.storeId, Null),
   filters |-> Coalesce(req.filters, Null), model |-> Coalesce(req.model, Null)]

\* lines 168-182: the body of a query
QueryBody(req) ==
  LET b0 == [t |-> "object", query |-> req.query]
      b1 == IF req.storeId # Undefined THEN Put(b0, "store_id", req.storeId) ELSE b0
      b2 == IF req.filters # Undefined THEN Put(b1, "filters", req.filters) ELSE b1
  IN IF req.model # Undefined THEN Put(b2, "model", req.model) ELSE b2

\* JSON.stringify(value, null, 0): the JSON value the text denotes; a key
\* whose value is undefined is left out
RECURSIVE JsonStringify(_)
JsonStringify(v) ==
  IF v.t = "object"
    THEN [k \in {x \in DOMAIN v : x = "t" \/ v[x] # Undefined} |->
            IF k = "t" THEN "object" ELSE JsonStringify(v[k])]
    ELSE v

JsonText(v) == [t |-> "text", json |-> JsonStringify(v)]

\* every attempt after the first goes out without its body
FetchArgs_BodyOnFirstAttemptOnly(u, m, b) ==
  [url |-> u,
   method |-> m,
   headers |-> ("X-API-Key" :> apiKey) @@ ("Content-Type" :> <<"application/json">>)
               @@ ("User-Agent" :> <<"@brainus/ai/0.1.0">>),
   body |-> IF Truthy(b) /\ pc \in {"idle", "done"} THEN JsonText(b) ELSE Undefined,
   signal |-> timeout]

\* lines 281-290: the arguments of fetch()
FetchArgs(u, m, b) ==
  [url |-> u,
   method |-> m,
   headers |-> ("X-API-Key" :> apiKey) @@ ("Content-Type" :> <<"application/json">>)
               @@ ("User-Agent" :> <<"@brainus/ai/0.1.0">>),
   body |-> IF Truthy(b) THEN JsonText(b) ELSE Undefined,
   signal |-> timeout]

----------------------------------------------------------------------------
(* The typed operations: reading the response                              *)

\* the elements of an array; Arr stands for an array of two objects
Items(v) == IF "items" \in DOMAIN v THEN v.items ELSE <<Obj, Obj>>

\* a remapping that keeps the wire name of the document id
Citation_WireNames(c) ==
  [t |-> "object",
   documentId |-> Get(c, "documentId"),
   documentName |-> Get(c, "document_name"),
   pages |-> Or(Get(c, "pages"), List(<<>>)),
   metadata |-> Get(c, "metadata"),
   chunkText |-> Get(c, "chunk_text")]

\* lines 193-199: one citation
Citation(c) ==
  [t |-> "object",
   documentId |-> Get(c, "document_id"),
   documentName |-> Get(c, "document_name"),
   pages |-> Or(Get(c, "pages"), List(<<>>)),
   metadata |-> Get(c, "metadata"),
   chunkText |-> Get(c, "chunk_text")]

\* lines 254-265: one plan
Plan(p) ==
  [t |-> "object",
   id |-> Get(p, "id"),
   name |-> Get(p, "name"),
   description |-> Get(p, "description"),
   rateLimitPerMinute |-> Get(p, "rate_limit_per_minute"),
   rateLimitPerDay |-> Get(p, "rate_limit_per_day"),
   monthlyQuota |-> Get(p, "monthly_quota"),
   priceLkr |-> Get(p, "price_lkr"),
   allowedModels |-> Or(Get(p, "allowed_models"), List(<<>>)),
   features |-> Or(Get(p, "features"), Obj),
   isActive |-> Get(p, "is_active")]

\* the callback handed to map: the arrow function of line 193 or of line 254
Callback(f, x) == IF f = "citation" THEN Citation(x) ELSE Plan(x)

\* v.map(f) where the callback f reads properties of its argument
Map(v, f) ==
  IF Nullish(v)
    THEN Threw(TypeError(<<"Cannot read properties of undefined (reading 'map')">>))
  ELSE IF v.t # "array" THEN Threw(TypeError(<<"map is not a function">>))
  ELSE IF \E i \in 1..Len(Items(v)) : Nullish(Items(v)[i])
    THEN Threw(TypeError(<<"Cannot read properties of null">>))
  ELSE Returned(List([i \in 1..Len(Items(v)) |-> Callback(f, Items(v)[i])]))

\* lines 190-201: what query makes of the value makeRequest returned
QueryResult(response) ==
  IF Nullish(response)
    THEN Threw(TypeError(<<"Cannot read properties of null (reading 'answer')">>))
  ELSE LET citations == Map(Or(Get(response, "citations"), List(<<>>)), "citation")
       IN IF citations.threw THEN citations
          ELSE Returned([t |-> "object",
                         answer |-> Get(response, "answer"),
                         citations |-> citations.value,
                         hasCitations |-> Get(response, "has_citations")])

\* lines 224-231: the plan of the usage statistics
PlanInfo(plan) ==
  IF Truthy(plan)
    THEN [t |-> "object",
          name |-> Get(plan, "name"),
          rateLimitPerMinute |-> Get(plan, "rate_limit_per_minute"),
          rateLimitPerDay |-> Get(plan, "rate_limit_per_day"),
          monthlyQuota |-> Get(plan, "monthly_quota")]
    ELSE Undefined

\* lines 217-234: what getUsage makes of the value makeRequest returned
UsageResult(response) ==
  IF Nullish(response)
    THEN Threw(TypeError(<<"Cannot read properties of null (reading 'total_requests')">>))
  ELSE Returned([t |-> "object",
                 totalRequests |-> Get(response, "total_requests"),
                 totalTokens |-> Get(response, "total_tokens"),
                 totalCostUsd |-> Get(response, "total_cost_usd"),
                 byEndpoint |-> Or(Get(response, "by_endpoint"), Obj),
                 quotaRemaining |-> Get(response, "quota_remaining"),
                 quotaPercentage |-> Get(response, "quota_percentage"),
                 plan |-> PlanInfo(Get(response, "plan")),
                 periodStart |-> Get(response, "period_start"),
                 periodEnd |-> Get(response, "period_end")])

\* lines 254-265: what getPlans makes of the value makeRequest returned
PlansResult(response) ==
  IF Nullish(response)
    THEN Threw(TypeError(<<"Cannot read properties of null (reading 'plans')">>))
  ELSE Map(Get(response, "plans"), "plan")

----------------------------------------------------------------------------
(* The state machine of one client                                         *)

Pending == [state |-> "pending"]
ReturnedValue(v) == [state |-> "returned", value |-> v]
Raised(e) == [state |-> "raised", error |-> e]

\* how the claims name an outcome: the cause of a rejected fetch, else the status
OutcomeClass(o) == IF o.t = "reject" THEN o.cause ELSE ToString(o.status)

Reject(cause, error) == [t |-> "reject", cause |-> cause, error |-> error]

Response(status, statusText, body, retryAfter) ==
  [t |-> "response", status |-> status, statusText |-> statusText,
   body |-> body, retryAfter |-> retryAfter]

JsonObject(detail, message) == [t |-> "object", detail |-> detail, message |-> message]
\* a body response.json() rejects on: empty, no JSON text, or cut short
Unparsable == [t |-> "unparsable"]

\* the values config.maxRetries ranges over; the constructor accepts any number
RetryConfigs == {-2, -1} \cup (0..MaxRetriesBound)

\* what the transport may answer an attempt with
Outcomes ==
  { Reject("network", NetworkError),
    Reject("timeout", TimeoutError),
    Response(200, <<"OK">>, JsonObject(Undefined, Undefined), Null),
    Response(200, <<"OK">>, Unparsable, Null),
    Response(201, <<"Created">>, Null, Null),
    Response(204, <<"No Content">>, Unparsable, Null),
    Response(304, <<"Not Modified">>, Unparsable, Null),
    Response(400, <<"Bad Request">>, JsonObject(Str(<<"Invalid query">>), Undefined), Null),
    Response(400, <<"Bad Request">>, JsonObject(Str(StoreLiteral), Undefined), Null),
    Response(400, <<"Bad Request">>, JsonObject(Obj, Undefined), Null),
    Response(401, <<"Unauthorized">>, JsonObject(Str(<<"Invalid API key">>), Undefined), Null),
    Response(403, <<"Forbidden">>, JsonObject(Str(<<"Monthly ", "Q", "u", "o", "t", "a", " exceeded">>), Undefined), Null),
    Response(403, <<"Forbidden">>, Unparsable, Null),
    Response(403, <<"Forbidden">>, JsonObject(Obj, Undefined), Null),
    Response(404, <<"Not Found">>, Unparsable, Null),
    Response(422, <<"Unprocessable Entity">>, JsonObject(Arr, Undefined), Null),
    Response(429, <<"Too Many Requests">>, JsonObject(Str(<<"Slow down">>), Undefined), Str(<<"5">>)),
    Response(429, <<"Too Many Requests">>, Unparsable, Null),
    Response(500, <<"Internal Server Error">>, JsonObject(Obj, Undefined), Null),
    Response(503, <<"Service Unavailable">>, JsonObject(Undefined, Str(<<"Overloaded">>)), Null) }

\* what the awaiting operation hands its caller once makeRequest has ended
\* with res: the remapped value, or the error, which passes through
OperationResult(operation, res) ==
  IF res.state # "returned" THEN res
  ELSE LET r == CASE operation = "query" -> QueryResult(res.value)
                  [] operation = "getUsage" -> UsageResult(res.value)
                  [] operation = "getPlans" -> PlansResult(res.value)
                  [] OTHER -> Returned(res.value)
       IN IF r.threw THEN Raised(r.error) ELSE ReturnedValue(r.value)

\* the configurations the retry loop is explored under
ApiKeys == {<<"b", "r", "a", "i", "n", "u", "s", "_", "k", "1">>}

SpecConfigs ==
  {Config(Str(k), Undefined, Undefined, Num(r)) : k \in ApiKeys, r \in RetryConfigs}
    \cup {Config(Str(k), Undefined, Undefined, Undefined) : k \in ApiKeys}
    \cup {Config(Str(k), Str(<<"http://localhost:8000">>), Num(5000), Num(1)) : k \in ApiKeys}

\* the queries the retry loop is explored under
SpecQueries ==
  {QueryRequest(Str(<<"What is Python?">>), Str(<<"abc123">>), Undefined, Undefined)}

\* hist where the outcomes of a call are not recorded
NoHistory == <<[t |-> "off"]>>

StartHistory(h) == IF h = NoHistory THEN h ELSE <<>>

Recorded(h, o) == IF h = NoHistory THEN h ELSE Append(h, o)

\* the parameters and locals of the call in focus, as one record
Locals ==
  [op |-> op, request |-> request, method |-> method, url |-> url, reqBody |-> reqBody,
   pc |-> pc, attempt |-> attempt, lastError |-> lastError, outcome |-> outcome,
   mappedMessage |-> mappedMessage, seen |-> seen, fetchCalls |-> fetchCalls,
   sleeps |-> sleeps, sent |-> sent, hist |-> hist, result |-> result,
   opResult |-> opResult]

\* no invocation yet
IdleLocals(p, h) ==
  [op |-> "none", request |-> Undefined, method |-> "", url |-> <<>>,
   reqBody |-> Undefined, pc |-> p, attempt |-> 0, lastError |-> Undefined,
   outcome |-> Undefined, mappedMessage |-> Undefined, seen |-> {},
   fetchCalls |-> <<>>, sleeps |-> <<>>, sent |-> {}, hist |-> h,
   result |-> Pending, opResult |-> Pending]

\* the locals of the call in focus are those of the record c
LocalsAre(c) ==
  /\ op = c.op
  /\ request = c.request
  /\ method = c.method
  /\ url = c.url
  /\ reqBody = c.reqBody
  /\ pc = c.pc
  /\ attempt = c.attempt
  /\ lastError = c.lastError
  /\ outcome = c.outcome
  /\ mappedMessage = c.mappedMessage
  /\ seen = c.seen
  /\ fetchCalls = c.fetchCalls
  /\ sleeps = c.sleeps
  /\ sent = c.sent
  /\ hist = c.hist
  /\ result = c.result
  /\ opResult = c.opResult

\* the client that new BrainusAI(cfg) leaves behind
Constructed(cfg) ==
  /\ ~NewClient(cfg).threw
  /\ config = cfg
  /\ apiKey = NewClient(cfg).value.apiKey
  /\ baseUrl = NewClient(cfg).value.baseUrl
  /\ timeout = NewClient(cfg).value.timeout
  /\ maxRetries = NewClient(cfg).value.maxRetries

Init ==
  /\ \E cfg \in SpecConfigs : Constructed(cfg)
  /\ LocalsAre(IdleLocals("idle", NoHistory))
  /\ focus = 1
  /\ other = IdleLocals("idle", NoHistory)

\* line 279 at loop index a: the loop test, then either the fetch of line 281
\* or the throw of line 318. calls and le are fetchCalls and lastError so far.
Iterate(a, calls, le) ==
  /\ attempt' = a
  /\ IF LoopCondition(a, maxRetries)
       THEN /\ pc' = "fetch"
            /\ fetchCalls' = Append(calls, a)
            /\ sent' = (IF calls = <<>> THEN {} ELSE sent)
                         \cup {FetchArgs(url', method', reqBody')}
            /\ result' = Pending
       ELSE /\ pc' = "done"
            /\ fetchCalls' = calls
            /\ sent' = IF calls = <<>> THEN {} ELSE sent
            /\ result' = Raised(ExhaustedError(maxRetries, le))

\* the classes of the earlier attempts once the loop moves past the attempt
\* that o answered: o joins them when another attempt follows
SeenAfter(o) ==
  IF LoopCondition(attempt + 1, maxRetries) THEN seen \cup {OutcomeClass(o)} ELSE seen

\* an operation invokes makeRequest: lines 271-281
makeRequest(m, endpoint, b) ==
  /\ method' = m
  /\ url' = baseUrl \o <<endpoint>>
  /\ reqBody' = b
  /\ lastError' = Undefined
  /\ outcome' = Undefined
  /\ mappedMessage' = Undefined
  /\ seen' = {}
  /\ sleeps' = <<>>
  /\ hist' = StartHistory(hist)
  /\ Iterate(0, <<>>, Undefined)

\* a caller invokes query: lines 166-188
query(req) ==
  /\ pc \in {"idle", "done"}
  /\ op' = "query"
  /\ request' = req
  /\ makeRequest("POST", "/api/v1/dev/query", QueryBody(req))
  /\ opResult' = OperationResult(op', result')
  /\ UNCHANGED <<client, focus, other>>

\* a caller invokes getUsage: line 215
getUsage ==
  /\ pc \in {"idle", "done"}
  /\ op' = "getUsage"
  /\ request' = Undefined
  /\ makeRequest("GET", "/api/v1/dev/usage", Undefined)
  /\ opResult' = OperationResult(op', result')
  /\ UNCHANGED <<client, focus, other>>

\* a caller invokes getPlans: lines 249-252
getPlans ==
  /\ pc \in {"idle", "done"}
  /\ op' = "getPlans"
  /\ request' = Undefined
  /\ makeRequest("GET", "/api/v1/dev/plans", Undefined)
  /\ opResult' = OperationResult(op', result')
  /\ UNCHANGED <<client, focus, other>>

\* the fetch of the current attempt settles with o: lines 292-315, and on to
\* the next fetch or the final throw when the catch block does not sleep; a
\* value makeRequest returns goes through the awaiting operation's remapping
Respond(o) ==
  /\ pc = "fetch"
  /\ outcome' = o
  /\ mappedMessage' = IF o.t = "response" /\ ~ResponseOk(o) THEN ErrorMessage(o) ELSE Undefined
  /\ hist' = Recorded(hist, o)
  /\ UNCHANGED <<op, request, method, url, reqBody>>
  /\ LET r == TryBlock(o)
     IN IF ~r.threw
          THEN /\ pc' = "done"
               /\ result' = ReturnedValue(r.value)
               /\ UNCHANGED <<attempt, lastError, seen, fetchCalls, sleeps, sent>>
        ELSE IF IsNonRetryable(r.error)
          THEN /\ pc' = "done"
               /\ lastError' = r.error
               /\ result' = Raised(r.error)
               /\ UNCHANGED <<attempt, seen, fetchCalls, sleeps, sent>>
        ELSE IF SleepCondition(attempt, maxRetries)
          THEN /\ pc' = "sleep"
               /\ lastError' = r.error
               /\ sleeps' = Append(sleeps, [after |-> attempt, ms |-> BackoffMs(attempt)])
               /\ UNCHANGED <<attempt, seen, fetchCalls, sent, result>>
        ELSE /\ lastError' = r.error
             /\ seen' = SeenAfter(o)
             /\ Iterate(attempt + 1, fetchCalls, r.error)
             /\ UNCHANGED sleeps
  /\ opResult' = OperationResult(op, result')
  /\ UNCHANGED <<client, focus, other>>

\* a sleep whose promise nothing resolves
sleep_NeverResolves(ms) == [delay |-> ms, settles |-> "never"]

\* lines 377-379: the promise of sleep(ms) resolves when its timer fires
sleep(ms) == [delay |-> ms, settles |-> "resolved"]

\* a wake-up that spends one of the client's retries
Wake_SpendsRetry ==
  /\ pc = "sleep"
  /\ maxRetries' = maxRetries - 1
  /\ UNCHANGED <<config, apiKey, baseUrl, timeout>>
  /\ seen' = SeenAfter(outcome)
  /\ UNCHANGED <<op, request, method, url, reqBody, lastError, outcome, mappedMessage, sleeps, hist>>
  /\ Iterate(attempt + 1, fetchCalls, lastError)
  /\ opResult' = OperationResult(op, result')
  /\ UNCHANGED <<focus, other>>

\* the timer of sleep() fires: lines 377-379, then the next iteration
Wake ==
  /\ pc = "sleep"
  /\ sleep(sleeps[Len(sleeps)].ms).settles = "resolved"
  /\ seen' = SeenAfter(outcome)
  /\ UNCHANGED <<op, request, method, url, reqBody, lastError, outcome, mappedMessage, sleeps, hist>>
  /\ Iterate(attempt + 1, fetchCalls, lastError)
  /\ opResult' = OperationResult(op, result')
  /\ UNCHANGED <<client, focus, other>>

Next ==
  \/ \E req \in SpecQueries : query(req)
  \/ getUsage
  \/ getPlans
  \/ \E o \in Outcomes : Respond(o)
  \/ Wake

Spec == Init /\ [][Next]_vars

----------------------------------------------------------------------------
(* handleErrorResponse on its own, over a wide range of responses          *)

HeaderChars == {"0", "1", "5", "-", " ", "a"}

\* response.headers.get("Retry-After"): null, or the header's text
HeaderValues ==
  {Null} \cup {Str(s) : s \in UNION {[1..k -> HeaderChars] : k \in 0..MaxHeaderLen}}

MessageTexts ==
  { <<>>,
    <<"Invalid query">>,
    QuotaLiteral,
    <<"Q", "U", "O", "T", "A">>,
    <<"Monthly ", "Q", "u", "o", "T", "a", " exceeded">>,
    <<"q", "u", "o", "t">>,
    <<"q", "u", "o", "t", "e", "a">>,
    StoreLiteral,
    <<"Error: ">> \o StoreLiteral \o <<"!">>,
    SubSeq(StoreLiteral, 1, Len(StoreLiteral) - 1),
    <<"no">> \o Tail(StoreLiteral),
    StoreLiteral \o <<" ">> \o QuotaLiteral }

DetailValues == {Undefined, Null, Obj, Arr} \cup {Str(s) : s \in MessageTexts}

MessageValues ==
  {Undefined, Obj, Str(<<>>), Str(<<"Overloaded">>), Str(QuotaLiteral), Str(StoreLiteral)}

Bodies ==
  {Unparsable, Null} \cup {JsonObject(d, m) : d \in DetailValues, m \in MessageValues}

StatusTexts == {<<>>, <<"Forbidden">>, <<"Q", "u", "o", "t", "a">>}

ErrorStatuses == {304, 400, 401, 403, 404, 422, 429, 500, 503}

ErrorResponses ==
  {Response(st, tx, b, h) :
     st \in ErrorStatuses, tx \in StatusTexts, b \in Bodies, h \in HeaderValues}

InitMap ==
  /\ Constructed(Config(Str(<<"b", "r", "a", "i", "n", "u", "s", "_", "k", "1">>),
                        Undefined, Undefined, Undefined))
  /\ \E o \in ErrorResponses :
       LocalsAre([IdleLocals("handleErrorResponse", NoHistory) EXCEPT
                    !.op = "getUsage", !.method = "GET",
                    !.url = DefaultBaseUrl \o <<"/api/v1/dev/usage">>,
                    !.fetchCalls = <<0>>, !.outcome = o])
  /\ focus = 1
  /\ other = IdleLocals("idle", NoHistory)

\* line 293: handleErrorResponse(response) runs to its throw
MapResponse ==
  /\ pc = "handleErrorResponse"
  /\ ~ResponseOk(outcome)
  /\ pc' = "mapped"
  /\ mappedMessage' = ErrorMessage(outcome)
  /\ LET h == handleErrorResponse(outcome)
     IN result' = IF h.threw THEN Raised(h.error) ELSE ReturnedValue(h.value)
  /\ UNCHANGED <<op, request, method, url, reqBody, attempt, lastError, outcome, seen,
                 fetchCalls, sleeps, sent, hist, opResult>>
  /\ UNCHANGED <<client, focus, other>>

NextMap == MapResponse

SpecMap == InitMap /\ [][NextMap]_vars

----------------------------------------------------------------------------
(* The constructor on its own, over a wide range of configurations         *)

KeyTexts ==
  { <<>>,
    <<"b", "r", "a", "i", "n", "u", "s", "_">>,
    <<"b", "r", "a", "i", "n", "u", "s", "_", "k", "1">>,
    <<"b", "r", "a", "i", "n", "u", "s">>,
    <<"b", "r", "a", "i", "n", "u", "s", "-", "k", "1">>,
    <<"B", "r", "a", "i", "n", "u", "s", "_", "k", "1">>,
    <<" ", "b", "r", "a", "i", "n", "u", "s", "_", "k", "1">>,
    <<"x", "b", "r", "a", "i", "n", "u", "s", "_">>,
    <<"s", "k", "_", "l", "i", "v", "e", "_", "k", "1">>,
    <<"_">> }

\* config.apiKey: left out, null, no string, or a text
KeyValues == {Undefined, Null, Obj} \cup {Str(k) : k \in KeyTexts}

BaseUrlValues == {Undefined, Null, Str(<<>>), Str(<<"http://localhost:8000">>)}

TimeoutValues == {Undefined, Num(0), Num(5000)}

RetryValues == {Undefined, Null} \cup {Num(r) : r \in RetryConfigs}

Configs ==
  {Config(k, b, ms, r) :
     k \in KeyValues, b \in BaseUrlValues, ms \in TimeoutValues, r \in RetryValues}

InitCtor ==
  /\ config = Undefined
  /\ apiKey = Undefined
  /\ baseUrl = Undefined
  /\ timeout = Undefined
  /\ maxRetries = Undefined
  /\ LocalsAre(IdleLocals("new", NoHistory))
  /\ focus = 1
  /\ other = IdleLocals("idle", NoHistory)

\* new BrainusAI(cfg): lines 137-146
constructor(cfg) ==
  /\ pc = "new"
  /\ config' = cfg
  /\ LET c == NewClient(cfg)
     IN IF c.threw
          THEN /\ pc' = "failed"
               /\ result' = Raised(c.error)
               /\ UNCHANGED <<apiKey, baseUrl, timeout, maxRetries>>
          ELSE /\ pc' = "idle"
               /\ apiKey' = c.value.apiKey
               /\ baseUrl' = c.value.baseUrl
               /\ timeout' = c.value.timeout
               /\ maxRetries' = c.value.maxRetries
               /\ UNCHANGED result
  /\ UNCHANGED <<op, request, method, url, reqBody, attempt, lastError, outcome,
                 mappedMessage, seen, fetchCalls, sleeps, sent, hist, opResult>>
  /\ UNCHANGED <<focus, other>>

NextCtor == \E cfg \in Configs : constructor(cfg)

SpecCtor == InitCtor /\ [][NextCtor]_vars

----------------------------------------------------------------------------
(* query's request body, over a wide range of requests                     *)

QueryTexts == {Str(<<>>), Str(<<"What is Python?">>), Str(<<"null">>)}

StoreIdValues == {Undefined, Null, Str(<<>>), Str(<<"abc123">>)}

FilterValues ==
  { Undefined,
    Obj,
    [t |-> "object", subject |-> Str(<<"ICT">>)],
    [t |-> "object", subject |-> Str(<<"ICT">>), grade |-> Str(<<"12">>)] }

ModelValues == {Undefined, Str(<<>>), Str(<<"gemini-2.5-flash">>)}

QueryRequests ==
  {QueryRequest(q, s, f, m) :
     q \in QueryTexts, s \in StoreIdValues, f \in FilterValues, m \in ModelValues}

InitQuery ==
  /\ Constructed(Config(Str(<<"b", "r", "a", "i", "n", "u", "s", "_", "k", "1">>),
                        Undefined, Undefined, Undefined))
  /\ LocalsAre(IdleLocals("idle", NoHistory))
  /\ focus = 1
  /\ other = IdleLocals("idle", NoHistory)

NextQuery == \E req \in QueryRequests : query(req)

SpecQuery == InitQuery /\ [][NextQuery]_vars

----------------------------------------------------------------------------
(* The remapping of successful responses, over a wide range of bodies      *)

\* a key the body does not have
Absent == [t |-> "absent"]

With(obj, key, v) == IF v = Absent THEN obj ELSE Put(obj, key, v)

RawCitation(id, name, pages, text) ==
  With(With(With(With(With(Obj, "document_id", id), "document_name", name),
                 "pages", pages), "metadata", Obj), "chunk_text", text)

Cite1 ==
  RawCitation(Str(<<"doc-1">>), Str(<<"ICT Grade 12">>), List(<<Num(3), Num(4)>>),
              Str(<<"A class is a blueprint.">>))

Cite2 == RawCitation(Str(<<"doc-2">>), Str(<<"Past Paper 2023">>), Absent, Absent)

Cite3 == RawCitation(Str(<<"doc-3">>), Absent, Null, Str(<<>>))

RawCitations ==
  { Absent, Null, Obj, List(<<>>), List(<<Cite1>>), List(<<Cite1, Cite2>>),
    List(<<Cite2, Cite1>>), List(<<Cite3, Cite1, Cite2>>), List(<<Cite1, Null>>) }

RawQueryBodies ==
  {With(With(With(Obj, "answer", a), "citations", c), "has_citations", h) :
     a \in {Absent, Null, Str(<<"Python is a language.">>)},
     c \in RawCitations,
     h \in {Absent, Bool(TRUE), Bool(FALSE)}}

RawPlan ==
  [t |-> "object", name |-> Str(<<"Free">>), rate_limit_per_minute |-> Num(10),
   rate_limit_per_day |-> Num(100)]

RawUsageBodies ==
  {With(With(Put(Obj, "total_requests", Num(12)), "by_endpoint", e), "plan", p) :
     e \in {Absent, Null, Obj}, p \in {Absent, Null, RawPlan}}

RawPlansBodies ==
  {With(Obj, "plans", p) :
     p \in {Absent, Null, Obj, List(<<>>), List(<<RawPlan>>), List(<<RawPlan, Null>>)}}

SuccessBodies ==
  RawQueryBodies \cup RawUsageBodies \cup RawPlansBodies
    \cup {Null, Str(<<"ok">>), Unparsable}

SuccessResponses == {Response(200, <<"OK">>, b, Null) : b \in SuccessBodies}

InitRemap ==
  /\ Constructed(Config(Str(<<"b", "r", "a", "i", "n", "u", "s", "_", "k", "1">>),
                        Undefined, Undefined, Num(0)))
  /\ LocalsAre(IdleLocals("idle", NoHistory))
  /\ focus = 1
  /\ other = IdleLocals("idle", NoHistory)

NextRemap ==
  \/ \E req \in SpecQueries : query(req)
  \/ getUsage
  \/ getPlans
  \/ \E o \in SuccessResponses : Respond(o)

SpecRemap == InitRemap /\ [][NextRemap]_vars

----------------------------------------------------------------------------
(* The retry loop under a transport and timers that do their work          *)

\* AbortSignal.timeout (line 289) settles every fetch, with a response or a
\* rejection; the timer of every sleep fires
Fairness ==
  /\ WF_vars(\E o \in Outcomes : Respond(o))
  /\ WF_vars(Wake)

SpecLive == Init /\ [][Next]_vars /\ Fairness

----------------------------------------------------------------------------
(* Two calls on one client, interleaved at their awaits                    *)

\* largest maxRetries of the client the two calls share
ConcRetriesBound == 2

\* what the transport may answer an attempt of either call with
ConcOutcomes ==
  { Reject("network", NetworkError),
    Response(200, <<"OK">>, JsonObject(Undefined, Undefined), Null),
    Response(401, <<"Unauthorized">>, JsonObject(Str(<<"Invalid API key">>), Undefined), Null),
    Response(503, <<"Service Unavailable">>, JsonObject(Undefined, Str(<<"Overloaded">>)), Null) }

InitConc ==
  /\ \E r \in 0..ConcRetriesBound :
       Constructed(Config(Str(<<"b", "r", "a", "i", "n", "u", "s", "_", "k", "1">>),
                          Undefined, Undefined, Num(r)))
  /\ LocalsAre(IdleLocals("idle", <<>>))
  /\ focus = 1
  /\ other = IdleLocals("idle", <<>>)

\* a loop index kept on the client instead of in the invocation
Resume_SharedAttempt(mine, theirs) == [theirs EXCEPT !.attempt = mine.attempt]

\* lines 271-279: method, endpoint, body, url, lastError and attempt are
\* parameters and locals of the invocation, so the call that resumes finds
\* its own (theirs), whatever the call that ran before it (mine) did
Resume(mine, theirs) == theirs

\* the event loop runs the continuation of the other call
Switch ==
  /\ focus' = 3 - focus
  /\ other' = Locals
  /\ LET c == Resume(Locals, other)
     IN /\ op' = c.op
        /\ request' = c.request
        /\ method' = c.method
        /\ url' = c.url
        /\ reqBody' = c.reqBody
        /\ pc' = c.pc
        /\ attempt' = c.attempt
        /\ lastError' = c.lastError
        /\ outcome' = c.outcome
        /\ mappedMessage' = c.mappedMessage
        /\ seen' = c.seen
        /\ fetchCalls' = c.fetchCalls
        /\ sleeps' = c.sleeps
        /\ sent' = c.sent
        /\ hist' = c.hist
        /\ result' = c.result
        /\ opResult' = c.opResult
  /\ UNCHANGED client

NextConc ==
  \/ \E req \in SpecQueries : query(req)
  \/ getUsage
  \/ \E o \in ConcOutcomes : Respond(o)
  \/ Wake
  \/ Switch

SpecConc == InitConc /\ [][NextConc]_vars

----------------------------------------------------------------------------
(* Vocabulary of the properties                                            *)

IsResponse(o) == o.t = "response"

HasStatus(o, st) == IsResponse(o) /\ o.status = st

Is2xx(o) == IsResponse(o) /\ o.status \in 200..299

Is4xx(o) == IsResponse(o) /\ o.status \in 400..499

\* network error, timeout abort, or a 5xx status
RetryableClasses == {"network", "timeout"} \cup {ToString(st) : st \in 500..599}

RaisedKind(kind) == result.state = "raised" /\ result.error.kind = kind

\* the call is over and the attempt that outcome answered was its last
EndedAtThisAttempt ==
  /\ pc = "done"
  /\ Len(fetchCalls) = attempt + 1
  /\ fetchCalls[Len(fetchCalls)] = attempt

\* min(1000 * 2^a, 10000) ms, written out: 1 s, 2 s, 4 s, 8 s, then 10 s
ClaimedWait(a) ==
  CASE a = 0 -> 1000
    [] a = 1 -> 2000
    [] a = 2 -> 4000
    [] a = 3 -> 8000
    [] OTHER -> 10000

----------------------------------------------------------------------------
(* C1 - C10                                                                *)

\* C1: an attempt answered with HTTP 429 ends the call at once with a
\* RateLimitError: no retry and no backoff wait follow it (one transport
\* invocation when it is the first attempt), and the error's retryAfter is the
\* integer of the Retry-After header when the header is present (5 for "5")
\* and undefined otherwise.
C1_RateLimitRaisedWithoutRetry ==
  HasStatus(outcome, 429) =>
    /\ EndedAtThisAttempt
    /\ RaisedKind("RateLimitError")
    /\ seen = {} => fetchCalls = <<0>> /\ sleeps = <<>>
    /\ outcome.retryAfter = Str(<<"5">>) => result.error.retryAfter = Num(5)
    /\ outcome.retryAfter = Null => result.error.retryAfter = Undefined

\* C2: an attempt answered with HTTP 401 ends the call at once with an
\* AuthenticationError, whatever maxRetries is: no further fetch and no wait
\* follow it, and when it is the first attempt the transport was invoked
\* exactly once and no wait occurred.
C2_AuthenticationRaisedWithoutRetry ==
  HasStatus(outcome, 401) =>
    /\ EndedAtThisAttempt
    /\ RaisedKind("AuthenticationError")
    /\ Len(sleeps) = attempt
    /\ seen = {} => fetchCalls = <<0>> /\ sleeps = <<>>

C2_Witness ==
  /\ HasStatus(outcome, 401)
  /\ maxRetries = 3
  /\ fetchCalls = <<0>>
  /\ RaisedKind("AuthenticationError")

\* "quota" in any letter case somewhere in the text m
ContainsQuotaAnyCase(m) ==
  \E i \in 0..(Len(m) - 5) :
    /\ m[i + 1] \in {"q", "Q"}
    /\ m[i + 2] \in {"u", "U"}
    /\ m[i + 3] \in {"o", "O"}
    /\ m[i + 4] \in {"t", "T"}
    /\ m[i + 5] \in {"a", "A"}

\* the error kind and status code the mapping table gives a 4xx other than
\* 401 and 429
RaisedClientErrorOf(o) ==
  IF o.status = 403 /\ ContainsQuotaAnyCase(ToStr(ErrorMessage(o)))
    THEN RaisedKind("QuotaExceededError")
    ELSE RaisedKind("APIError") /\ result.error.statusCode = Num(o.status)

\* C3: an attempt answered with a 4xx status other than 401 and 429 ends the
\* call at once with the mapped error (QuotaExceededError for a 403 quota
\* message, else APIError with that status): no fetch and no wait follow it.
C3_ClientErrorRaisedWithoutRetry ==
  (Is4xx(outcome) /\ outcome.status \notin {401, 429}) =>
    /\ EndedAtThisAttempt
    /\ Len(sleeps) = attempt
    /\ RaisedClientErrorOf(outcome)

\* C3 holds of the responses whose message is text: the retried 4xx responses
\* are those of status 400 or 403 whose detail or message is no string
ClientErrorWithTextRaisedWithoutRetry ==
  (/\ Is4xx(outcome) /\ outcome.status \notin {401, 429}
   /\ ErrorMessage(outcome).t = "string") =>
    /\ EndedAtThisAttempt
    /\ Len(sleeps) = attempt
    /\ RaisedClientErrorOf(outcome)

\* the classes of all attempts of the call so far
AllClasses == seen \cup (IF outcome.t = "undefined" THEN {} ELSE {OutcomeClass(outcome)})

\* C4: a call all of whose attempts failed with a 5xx status, a network error
\* or a timeout raises an APIError after exactly maxRetries+1 fetches, and the
\* message holds the attempt count and the last underlying error's message.
C4_ExhaustedAfterAllAttempts ==
  (pc = "done" /\ fetchCalls # <<>> /\ AllClasses \subseteq RetryableClasses) =>
    /\ RaisedKind("APIError")
    /\ Len(fetchCalls) = maxRetries + 1
    /\ Includes(result.error.message, <<ToString(maxRetries + 1)>>)
    /\ Includes(result.error.message, TryBlock(outcome).error.message)

C4_Witness ==
  /\ pc = "done"
  /\ maxRetries = 3
  /\ Len(fetchCalls) = 4
  /\ seen = {"network", "timeout", "503"}
  /\ HasStatus(outcome, 503)
  /\ result.error.message =
       <<"Request failed after ", "4", " attempts: ", "Overloaded">>

\* what C5 concludes of a call whose attempt number attempt+1 was answered last
SucceededAfterBackoffs ==
  /\ pc = "done"
  /\ result.state = "returned"
  /\ Len(fetchCalls) = attempt + 1
  /\ Len(sleeps) = attempt
  /\ \A k \in 1..attempt :
       sleeps[k].ms = ClaimedWait(k - 1) /\ sleeps[k].after = k - 1

ReturnedThisBody ==
  /\ EndedAtThisAttempt
  /\ Len(sleeps) = attempt
  /\ result = ReturnedValue(outcome.body)

TableError(st, m) ==
  IF st = 401 THEN Error("AuthenticationError", m)
  ELSE IF st = 429 THEN Error("RateLimitError", m)
  ELSE IF st = 400 /\ Includes(m, StoreLiteral)
    THEN [Error("APIError", ClarifiedStoreMessage) EXCEPT !.statusCode = Num(400)]
  ELSE IF st = 403 /\ ContainsQuotaAnyCase(m) THEN Error("QuotaExceededError", m)
  ELSE [Error("APIError", m) EXCEPT !.statusCode = Num(st)]

\* the error handleErrorResponse threw is the table's, the retry-after hint aside
RaisedTableError ==
  /\ result.state = "raised"
  /\ [result.error EXCEPT !.retryAfter = Undefined]
       = TableError(outcome.status, ToStr(ErrorMessage(outcome)))

\* C7: the mapping of a non-2xx response is a total function of its status and
\* message: 401 -> AuthenticationError; 429 -> RateLimitError; 400 with the
\* store literal -> APIError(400) with the clarified message; other 400 ->
\* APIError(400) with the raw message; 403 with "quota" in any letter case ->
\* QuotaExceededError; other 403 -> APIError(403); any other s -> APIError(s).
C7_MappingTable == pc = "mapped" => RaisedTableError

\* the table holds of every response whose message is text
MappingTableOnText ==
  (pc = "mapped" /\ ErrorMessage(outcome).t = "string") => RaisedTableError

\* C8: a call returns a value only if the attempt that ended it received a
\* 2xx response, and the value is that response's body; a non-2xx response is
\* never parsed and returned.
C8_ReturnsOnly2xx ==
  result.state = "returned" =>
    /\ Is2xx(outcome)
    /\ result.value = outcome.body
    /\ EndedAtThisAttempt

C8_Witness ==
  /\ result.state = "returned"
  /\ HasStatus(outcome, 200)
  /\ seen = {"429", "403"}

\* the attempt indices run 0, 1, 2, ... upwards without repetition or gap,
\* within 0..maxRetries
IndicesInOrder ==
  \A i \in 1..Len(fetchCalls) :
    fetchCalls[i] = i - 1 /\ fetchCalls[i] \in 0..maxRetries

\* C9 as stated: in every call the number of fetches never exceeds
\* maxRetries+1, and the attempt indices run 0..maxRetries in increasing order
\* without repetition.
C9_AsStated ==
  pc # "idle" => Len(fetchCalls) <= maxRetries + 1 /\ IndicesInOrder

\* the bound with a negative maxRetries read as no attempt at all: the number
\* of fetches never exceeds maxRetries+1 when maxRetries >= 0 and is 0 when
\* maxRetries is negative; the attempt indices run 0..maxRetries in increasing
\* order without repetition.
C9_AttemptsBounded ==
  /\ Len(fetchCalls) <= (IF maxRetries >= 0 THEN maxRetries + 1 ELSE 0)
  /\ IndicesInOrder

C9_Witness ==
  /\ pc = "done"
  /\ maxRetries = 3
  /\ fetchCalls = <<0, 1, 2, 3>>
  /\ Cardinality(seen) = 3

\* C10: after a retryable failure on attempt a, the call waits exactly
\* min(1000 * 2^a, 10000) ms before the next attempt when a < maxRetries, and
\* when a = maxRetries it does not wait and raises the exhausted-retries
\* error; every later attempt is preceded by its wait; no wait exceeds 10000.
C10_BackoffSchedule ==
  /\ \A i \in 1..Len(sleeps) :
       /\ sleeps[i].after = i - 1
       /\ sleeps[i].after < maxRetries
       /\ sleeps[i].ms = ClaimedWait(i - 1)
       /\ sleeps[i].ms <= 10000
  /\ (pc = "fetch" /\ attempt >= 1) => Len(sleeps) = attempt
  /\ (/\ pc # "fetch" /\ outcome.t # "undefined"
      /\ OutcomeClass(outcome) \in RetryableClasses) =>
       LET a == fetchCalls[Len(fetchCalls)]
       IN IF a < maxRetries
            THEN /\ pc = "sleep"
                 /\ Len(sleeps) = a + 1
                 /\ sleeps[a + 1] = [after |-> a, ms |-> ClaimedWait(a)]
            ELSE /\ a = maxRetries
                 /\ pc = "done"
                 /\ Len(sleeps) = a
                 /\ RaisedKind("APIError")
                 /\ result.error.statusCode = Undefined
                 /\ Includes(result.error.message, <<"Request failed after ">>)

C10_Witness ==
  /\ pc = "sleep"
  /\ HasStatus(outcome, 503)
  /\ attempt = 4
  /\ sleeps[5] = [after |-> 4, ms |-> 10000]

----------------------------------------------------------------------------
(* C11 - C20                                                               *)

\* the key is a text that starts with 'brainus_'
KeyAccepted(k) ==
  /\ k.t = "string"
  /\ Len(k.s) >= 8
  /\ SubSeq(k.s, 1, 8) = <<"b", "r", "a", "i", "n", "u", "s", "_">>

\* the caller gave the field a value
Supplied(v) == v.t \notin {"undefined", "null"}

\* C11: construction fails with an error whenever the API key is missing,
\* empty or does not start with 'brainus_'; with such a key and nothing else
\* it succeeds with base URL 'https://api.brainus.lk', timeout 30000 and max
\* retries 3; a supplied base URL, timeout or max-retry value replaces the
\* default.
C11_Construction ==
  pc # "new" =>
    /\ ~KeyAccepted(config.apiKey) => (pc = "failed" /\ result.state = "raised")
    /\ KeyAccepted(config.apiKey) =>
         /\ pc = "idle"
         /\ result = Pending
         /\ apiKey = config.apiKey.s
         /\ baseUrl = IF Supplied(config.baseUrl) THEN config.baseUrl.s
                      ELSE <<"https://api.brainus.lk">>
         /\ timeout = IF Supplied(config.timeout) THEN config.timeout.n ELSE 30000
         /\ maxRetries = IF Supplied(config.maxRetries) THEN config.maxRetries.n ELSE 3

C11_Witness ==
  /\ pc = "idle"
  /\ config = Config(Str(<<"b", "r", "a", "i", "n", "u", "s", "_", "k", "1">>),
                     Undefined, Undefined, Undefined)
  /\ baseUrl = <<"https://api.brainus.lk">>
  /\ timeout = 30000
  /\ maxRetries = 3

\* C14: no operation changes the client's configuration: after any sequence
\* of query, getUsage and getPlans calls, succeeding, failing or retried, the
\* API key, base URL, timeout and max retries are those set at construction.
C14_ConfigurationUnchanged ==
  /\ KeyAccepted(config.apiKey)
  /\ apiKey = config.apiKey.s
  /\ baseUrl = IF Supplied(config.baseUrl) THEN config.baseUrl.s
               ELSE <<"https://api.brainus.lk">>
  /\ timeout = IF Supplied(config.timeout) THEN config.timeout.n ELSE 30000
  /\ maxRetries = IF Supplied(config.maxRetries) THEN config.maxRetries.n ELSE 3

C14_Witness ==
  /\ pc = "done"
  /\ op = "getPlans"
  /\ Len(sleeps) = 1
  /\ opResult.state = "raised"
  /\ config.timeout = Num(5000)
  /\ timeout = 5000
  /\ maxRetries = 1

\* the method and path of each operation
ClaimedMethod(operation) == IF operation = "query" THEN "POST" ELSE "GET"

ClaimedPath(operation) ==
  CASE operation = "query" -> "/api/v1/dev/query"
    [] operation = "getUsage" -> "/api/v1/dev/usage"
    [] operation = "getPlans" -> "/api/v1/dev/plans"

\* C15: every attempt of one call transmits the same request: the same
\* method, the same URL (base URL + path), the same three headers (API key,
\* JSON content type, user agent) and, for query, the same body as the first
\* attempt; a retry never alters or drops any of them.
C15_SameRequestEveryAttempt ==
  fetchCalls # <<>> =>
    /\ Cardinality(sent) = 1
    /\ \A r \in sent :
         /\ r.method = ClaimedMethod(op)
         /\ r.url = baseUrl \o <<ClaimedPath(op)>>
         /\ DOMAIN r.headers = {"X-API-Key", "Content-Type", "User-Agent"}
         /\ r.headers["X-API-Key"] = apiKey
         /\ r.headers["Content-Type"] = <<"application/json">>
         /\ r.headers["User-Agent"] = <<"@brainus/ai/0.1.0">>
         /\ op = "query" =>
              /\ r.body.t = "text"
              /\ r.body.json.query = request.query
              /\ r.body.json.store_id = request.storeId

C15_Witness ==
  /\ op = "query"
  /\ pc = "fetch"
  /\ Len(fetchCalls) = 4
  /\ Cardinality(sent) = 1

\* the caller provided the optional field
Provided(v) == v # Undefined

\* C16: the transmitted body of a query always has the key 'query'; it has
\* 'store_id', 'filters', 'model' exactly when the caller provided storeId,
\* filters, model, with the caller's value, and no other key; an omitted
\* optional field appears under no key, not even with null or an empty value.
C16_QueryBodyKeys ==
  (op = "query" /\ pc = "fetch") =>
    \A r \in sent :
      /\ r.body.t = "text"
      /\ Keys(r.body.json) =
           {"query"}
             \cup (IF Provided(request.storeId) THEN {"store_id"} ELSE {})
             \cup (IF Provided(request.filters) THEN {"filters"} ELSE {})
             \cup (IF Provided(request.model) THEN {"model"} ELSE {})
      /\ r.body.json.query = request.query
      /\ Provided(request.storeId) => r.body.json.store_id = request.storeId
      /\ Provided(request.filters) => r.body.json.filters = request.filters
      /\ Provided(request.model) => r.body.json.model = request.model

C16_Witness ==
  /\ op = "query"
  /\ pc = "fetch"
  /\ request.storeId = Undefined
  /\ request.model = Str(<<>>)
  /\ request.filters = Obj
  /\ \E r \in sent : Keys(r.body.json) = {"query", "filters", "model"}

\* a raw query response: a JSON object whose citations, where it has the key,
\* are a sequence of objects
IsRawQueryResponse(raw) ==
  /\ raw.t = "object"
  /\ "citations" \in Keys(raw) =>
       /\ raw.citations.t = "array"
       /\ \A i \in 1..Len(Items(raw.citations)) : Items(raw.citations)[i].t = "object"

RawCitationsOf(raw) ==
  IF "citations" \in Keys(raw) THEN Items(raw.citations) ELSE <<>>

\* the citation c is the raw citation rc under the camelCase names
Remapped(c, rc) ==
  /\ Keys(c) = {"documentId", "documentName", "pages", "metadata", "chunkText"}
  /\ c.documentId = (IF "document_id" \in Keys(rc) THEN rc.document_id ELSE Undefined)
  /\ c.documentName = (IF "document_name" \in Keys(rc) THEN rc.document_name ELSE Undefined)
  /\ c.chunkText = (IF "chunk_text" \in Keys(rc) THEN rc.chunk_text ELSE Undefined)
  /\ c.metadata = (IF "metadata" \in Keys(rc) THEN rc.metadata ELSE Undefined)
  /\ "pages" \notin Keys(rc) => c.pages = List(<<>>)
  /\ ("pages" \in Keys(rc) /\ rc.pages.t = "array") => c.pages = rc.pages

\* C17: of a successful raw query response, query returns the answer
\* unchanged, hasCitations equal to the raw has_citations, and the citations
\* in the raw length and order with document_id, document_name, chunk_text
\* under documentId, documentName, chunkText and absent pages as an empty
\* sequence; a raw response with no citations key gives an empty citations
\* sequence and no error.
C17_QueryRemapping ==
  (op = "query" /\ pc = "done" /\ result.state = "returned"
     /\ IsRawQueryResponse(result.value)) =>
    LET raw == result.value
        rcs == RawCitationsOf(raw)
    IN /\ opResult.state = "returned"
       /\ Keys(opResult.value) = {"answer", "citations", "hasCitations"}
       /\ opResult.value.answer =
            (IF "answer" \in Keys(raw) THEN raw.answer ELSE Undefined)
       /\ opResult.value.hasCitations =
            (IF "has_citations" \in Keys(raw) THEN raw.has_citations ELSE Undefined)
       /\ opResult.value.citations.t = "array"
       /\ Len(opResult.value.citations.items) = Len(rcs)
       /\ \A i \in 1..Len(rcs) : Remapped(opResult.value.citations.items[i], rcs[i])

C17_Witness ==
  /\ op = "query"
  /\ pc = "done"
  /\ result.state = "returned"
  /\ IsRawQueryResponse(result.value)
  /\ RawCitationsOf(result.value) = <<Cite3, Cite1, Cite2>>
  /\ opResult.state = "returned"
  /\ opResult.value.citations.items[3].documentId = Str(<<"doc-2">>)
  /\ opResult.value.citations.items[3].pages = List(<<>>)

\* the field is there and is not empty
PresentAndNonEmpty(v) == v.t \notin {"undefined", "null"} /\ v # Str(<<>>)

\* detail, else message, else the status text
ClaimedMessage(response) ==
  IF response.body.t # "object" THEN Str(response.statusText)
  ELSE IF PresentAndNonEmpty(response.body.detail) THEN response.body.detail
  ELSE IF PresentAndNonEmpty(response.body.message) THEN response.body.message
  ELSE Str(response.statusText)

TaxonomyKinds ==
  {"AuthenticationError", "RateLimitError", "QuotaExceededError", "APIError"}

\* C18: the message of a mapped error is chosen from the non-success
\* response in this order: the body's 'detail' if present and non-empty, else
\* its 'message' if present and non-empty, else the status text; with a body
\* that is absent or does not parse the status text is used and the mapping
\* still raises the error kind its status determines.
C18_MessageSelection ==
  pc = "mapped" =>
    /\ mappedMessage = ClaimedMessage(outcome)
    /\ (result.state = "raised" /\ result.error.kind \in TaxonomyKinds) =>
         \/ result.error.message = ToStr(ClaimedMessage(outcome))
         \/ /\ outcome.status = 400
            /\ Includes(ToStr(ClaimedMessage(outcome)), StoreLiteral)
            /\ result.error.message = ClarifiedStoreMessage
    /\ outcome.body.t # "object" =>
         /\ result.state = "raised"
         /\ [result.error EXCEPT !.retryAfter = Undefined]
              = TableError(outcome.status, outcome.statusText)

C18_Witness ==
  /\ pc = "mapped"
  /\ outcome.body.t = "object"
  /\ outcome.body.detail = Str(<<>>)
  /\ outcome.body.message = Str(<<"Overloaded">>)
  /\ outcome.status = 503
  /\ result.state = "raised"
  /\ result.error.message = <<"Overloaded">>

\* the error the attempt answered with o ends in, if it ends in one
AttemptError(o) == IF TryBlock(o).threw THEN TryBlock(o).error ELSE Undefined

\* authentication, quota-exceeded, or an API error with a status below 500
ClaimedNonRetryable(e) ==
  /\ e.t = "error"
  /\ \/ e.kind \in {"AuthenticationError", "QuotaExceededError"}
     \/ /\ e.kind = "APIError"
        /\ e.statusCode.t = "number"
        /\ e.statusCode.n < 500

\* the loop ran out: the exhausted-retries APIError after maxRetries+1 fetches
RaisedExhausted ==
  /\ RaisedKind("APIError")
  /\ result.error.statusCode = Undefined
  /\ result.error.message[1] = "Request failed after "
  /\ result.error.message[2] = ToString(maxRetries + 1)
  /\ Len(fetchCalls) = IF maxRetries >= 0 THEN maxRetries + 1 ELSE 0

\* what C19 says of the latest answered attempt, where Deciding tells whether
\* its outcome decides the call
DecidedByFirst(deciding) ==
  /\ (outcome.t # "undefined" /\ deciding) =>
       /\ EndedAtThisAttempt
       /\ Is2xx(outcome) => result = ReturnedValue(outcome.body)
       /\ ~Is2xx(outcome) => result = Raised(AttemptError(outcome))
  /\ (pc = "done" /\ ~(outcome.t # "undefined" /\ deciding)) => RaisedExhausted

C20_OnlyTaxonomyErrors ==
  opResult.state = "raised" => opResult.error.kind \in TaxonomyKinds

\* the errors makeRequest itself raises are of the taxonomy
MakeRequestRaisesTaxonomyErrors ==
  result.state = "raised" => result.error.kind \in TaxonomyKinds

\* C12: every call ends, in one of two ways: it returns a result or it raises
\* an error. With a transport that settles every request and timers that
\* fire, no call retries for ever or stays suspended for ever.
C12_EveryCallTerminates ==
  /\ [](pc = "done" => opResult.state \in {"returned", "raised"})
  /\ (pc \in {"fetch", "sleep"}) ~> (pc = "done")

C12_Witness ==
  /\ pc = "done"
  /\ maxRetries = 5
  /\ Len(fetchCalls) = 6
  /\ Len(sleeps) = 5
  /\ opResult.state = "returned"

\* the waits of a call that slept n times
ExpectedWaits(n) == [k \in 1..n |-> [after |-> k - 1, ms |-> ClaimedWait(k - 1)]]

\* a network error or a 503: the attempt is retried
Retried(o) == o.t = "reject" \/ HasStatus(o, 503)

\* the attempts, the waits and the end of the call with locals c are those
\* its own outcomes c.hist give
OwnOutcomesDecide(c) ==
  LET n == Len(c.hist)
  IN /\ c.pc = "idle" => n = 0
     /\ c.fetchCalls = [k \in 1..(n + (IF c.pc = "fetch" THEN 1 ELSE 0)) |-> k - 1]
     /\ c.sleeps = ExpectedWaits(IF c.pc = "done" /\ n > 0 THEN n - 1 ELSE n)
     /\ \A i \in 1..(n - 1) : Retried(c.hist[i])
     /\ c.pc \in {"fetch", "sleep"} =>
          /\ c.result = Pending
          /\ \A i \in 1..n : Retried(c.hist[i])
     /\ (c.pc = "done" /\ n > 0) =>
          /\ Is2xx(c.hist[n]) => c.result = ReturnedValue(c.hist[n].body)
          /\ HasStatus(c.hist[n], 401) =>
               c.result = Raised(Error("AuthenticationError", <<"Invalid API key">>))
          /\ Retried(c.hist[n]) =>
               /\ n = maxRetries + 1
               /\ c.result.state = "raised"
               /\ c.result.error.kind = "APIError"
               /\ c.result.error.statusCode = Undefined
               /\ c.result.error.message[2] = ToString(n)

\* C13: concurrent calls on one client are independent under every
\* interleaving of their requests, responses and waits: the attempt count,
\* the wait durations and the final outcome of each depend only on the
\* transport outcomes of its own attempts, not on the other call.
C13_CallsIndependent == OwnOutcomesDecide(Locals) /\ OwnOutcomesDecide(other)

C13_Witness ==
  /\ pc = "sleep"
  /\ Len(hist) = 2
  /\ other.pc = "done"
  /\ Len(other.hist) = 2
  /\ other.result.state = "returned"
  /\ op = "query"
  /\ other.op = "getUsage"

----------------------------------------------------------------------------
(* C21 - C23                                                               *)

\* what C21 says of a call that has ended
RequestedBeforeEnding ==
  /\ Len(fetchCalls) >= 1
  /\ maxRetries = 0 => (Len(fetchCalls) = 1 /\ sleeps = <<>>)

\* C21: under every configuration the constructor accepts, maxRetries = 0 and
\* any other supplied maxRetries included, a call issues at least one
\* transport request before it returns or raises; with maxRetries = 0 it
\* issues exactly one request and performs no backoff wait.
C21_AtLeastOneRequest == pc = "done" => RequestedBeforeEnding

\* the same of the clients whose maxRetries is not negative
AtLeastOneRequestFromZeroRetries ==
  (pc = "done" /\ maxRetries >= 0) => RequestedBeforeEnding

\* the loop ran past its last attempt: the call ended at line 318
LoopRanOut == pc = "done" /\ attempt > maxRetries

\* C22: the APIError raised after the retries are exhausted carries no status
\* code, even when every attempt failed with the same 5xx status; so an
\* APIError that reaches the caller with a status code has a status below 500.
C22_ExhaustedCarriesNoStatus ==
  /\ LoopRanOut =>
       /\ RaisedKind("APIError")
       /\ result.error.statusCode = Undefined
       /\ opResult = result
  /\ (opResult.state = "raised" /\ opResult.error.kind = "APIError"
        /\ opResult.error.statusCode # Undefined) =>
       /\ opResult.error.statusCode.t = "number"
       /\ opResult.error.statusCode.n < 500

C22_Witness ==
  /\ LoopRanOut
  /\ maxRetries = 2
  /\ Len(fetchCalls) = 3
  /\ seen = {"503"}
  /\ HasStatus(outcome, 503)
  /\ lastError.statusCode = Num(503)
  /\ opResult.error.statusCode = Undefined

\* an APIError with a status code does reach the caller
StatusBelow500Reached ==
  /\ pc = "done"
  /\ opResult.state = "raised"
  /\ opResult.error.kind = "APIError"
  /\ opResult.error.statusCode = Num(404)

\* requests and waits take turns: wait i follows request i, and a request is
\* under way or a wait is running only after all that came before it
TakeTurns ==
  /\ Len(fetchCalls) <= Len(sleeps) + 1
  /\ Len(sleeps) <= Len(fetchCalls)
  /\ \A i \in 1..Len(sleeps) : sleeps[i].after = fetchCalls[i]
  /\ pc = "fetch" => Len(fetchCalls) = Len(sleeps) + 1
  /\ pc = "sleep" => Len(sleeps) = Len(fetchCalls)

\* C23: within one call requests and backoff waits strictly alternate: at
\* most one request is in flight, a new request starts only after the one
\* before it has completed and the wait that follows it has elapsed, and when
\* the call ends the waits performed number the transport invocations minus
\* one.
C23_StrictAlternation ==
  /\ TakeTurns
  /\ pc = "done" => Len(sleeps) = Len(fetchCalls) - 1

\* the same of the calls that issued a request
AlternationOnceRequested ==
  /\ TakeTurns
  /\ (pc = "done" /\ fetchCalls # <<>>) => Len(sleeps) = Len(fetchCalls) - 1

====
